---- MODULE Spec2Model ----
(***************************************************************************)
(* Model of the streaming chat component App of src/index.tsx: the React   *)
(* state of the component, the mount effect initChat, the input's onChange *)
(* handler and the async submit handler handleSendMessage, cut at each of  *)
(* its suspension points (the await of sendMessageStream, every turn of    *)
(* the for-await loop).  Every action is one task of the single UI thread: *)
(* the handler code that runs to the next await, with the re-render React  *)
(* performs before the next event is dispatched.                           *)
(*                                                                         *)
(* Strings are sequences of one-character strings, so that trim and +=     *)
(* are computed rather than assumed.                                       *)
(***************************************************************************)
EXTENDS Naturals, Sequences, FiniteSets

\* ---------------------------------------------------------------- bounds
\* Accepted sends per behaviour, and chunks one stream delivers.
MaxSends == 2
MaxChunks == 2

\* Values the user can put in the input field (e.target.value).
InputTexts == { <<>>, <<" ">>, <<"a">>, <<" ", "a", " ">> }
\* Values of chunk.text a stream can deliver.
ChunkTexts == { <<"a">>, <<"b">> }

\* ---------------------------------------------------------------- values
NoChat == "null"
Handle == "chat"
NoError == "null"
InitError == "Failed to initialize the AI. Please check the API key."
StreamError == "An error occurred while getting the response. Please try again."

VARIABLES
    chat,        \* useState<Chat | null>
    messages,    \* useState<Message[]>
    userInput,   \* useState('')
    isLoading,   \* useState(false)
    error,       \* useState<string | null>
    initState,   \* position of the mount effect: "pending", "ok", "failed"
    sends,       \* the invocations of handleSendMessage that passed the guard:
                 \*   pc            where the invocation stands ("open": at the
                 \*                 await of sendMessageStream, "iter": in the
                 \*                 for-await loop, "done", "failed")
                 \*   messageToSend the local of that name
                 \*   before, slot, delivered   history: messages at the call,
                 \*                 the index of its placeholder, the chunks
                 \*                 its stream has produced
    ev           \* history: the handler that ran last, [op, id]

vars == <<chat, messages, userInput, isLoading, error, initState, sends, ev>>

\* ---------------------------------------------------------------- strings
IsSpace(c) == c = " "

RECURSIVE trimStart(_)
trimStart(s) ==
    IF s = <<>> THEN <<>>
    ELSE IF IsSpace(Head(s)) THEN trimStart(Tail(s)) ELSE s

RECURSIVE trimEnd(_)
trimEnd(s) ==
    IF s = <<>> THEN <<>>
    ELSE IF IsSpace(s[Len(s)]) THEN trimEnd(SubSeq(s, 1, Len(s) - 1)) ELSE s

\* String.prototype.trim
trim(s) == trimEnd(trimStart(s))

\* ---------------------------------------------------------------- messages
\* The guard of handleSendMessage, negated: the handler goes on iff this holds.
\* (CanSend_noTrim tests userInput without trim, CanSend_noChat omits !chat.)
CanSend_noTrim(input, loading, c) == input # <<>> /\ ~loading /\ c # NoChat
CanSend_noChat(input, loading, c) == trim(input) # <<>> /\ ~loading
CanSend(input, loading, c) == trim(input) # <<>> /\ ~loading /\ c # NoChat

\* The user message keeps the input as typed (userMessage_trimmed would not).
userMessage_trimmed(input) == [role |-> "user", text |-> trim(input)]
userMessage(input) == [role |-> "user", text |-> input]

placeholder == [role |-> "model", text |-> <<>>]

\* The value handleSendMessage passes to setIsLoading before the request
\* (loadingOnSend_forgot: the flag is never raised).
loadingOnSend_forgot == FALSE
loadingOnSend == TRUE

\* The updater of the chunk loop: += on the text of the last message
\* (appendChunk_prepend puts the chunk in front instead).
appendChunk_prepend(msgs, chunkText) ==
    IF msgs = <<>> THEN msgs
    ELSE [msgs EXCEPT ![Len(msgs)].text = chunkText \o @]
appendChunk(msgs, chunkText) ==
    IF msgs = <<>> THEN msgs
    ELSE [msgs EXCEPT ![Len(msgs)].text = @ \o chunkText]

\* prev.slice(0, -1)
\* (removePlaceholder_two is slice(0, -2), removePlaceholder_keep no rollback.)
removePlaceholder_two(msgs) ==
    IF Len(msgs) < 2 THEN <<>> ELSE SubSeq(msgs, 1, Len(msgs) - 2)
removePlaceholder_keep(msgs) == msgs
removePlaceholder(msgs) ==
    IF msgs = <<>> THEN <<>> ELSE SubSeq(msgs, 1, Len(msgs) - 1)

\* ---------------------------------------------------------------- view
\* What the render shows.
welcomeShown == Len(messages) = 0 /\ ~isLoading
errorShown == error # NoError
inputDisabled == isLoading

\* ---------------------------------------------------------------- state
\* The declarations of the component's state.
TypeOK ==
    /\ chat \in {NoChat, Handle}
    /\ \A k \in DOMAIN messages :
        /\ messages[k].role \in {"user", "model"}
        /\ messages[k].text \in Seq({" ", "a", "b"})
    /\ userInput \in InputTexts
    /\ isLoading \in BOOLEAN
    /\ error \in {NoError, InitError, StreamError}
    /\ initState \in {"pending", "ok", "failed"}
    /\ \A i \in DOMAIN sends : sends[i].pc \in {"open", "iter", "done", "failed"}

\* ---------------------------------------------------------------- actions
Idle == [op |-> "none", id |-> 0]

Init ==
    /\ chat = NoChat
    /\ messages = <<>>
    /\ userInput = <<>>
    /\ isLoading = FALSE
    /\ error = NoError
    /\ initState = "pending"
    /\ sends = <<>>
    /\ ev = Idle

\* The mount effect: runs once; creating the session succeeds or throws
\* (initChat_noError: the catch records nothing).
initChat_noError ==
    /\ initState = "pending"
    /\ \E ok \in BOOLEAN :
        IF ok
        THEN /\ chat' = Handle
             /\ initState' = "ok"
             /\ UNCHANGED error
        ELSE /\ initState' = "failed"
             /\ UNCHANGED <<chat, error>>
    /\ ev' = [op |-> "initChat", id |-> 0]
    /\ UNCHANGED <<messages, userInput, isLoading, sends>>
initChat ==
    /\ initState = "pending"
    /\ \E ok \in BOOLEAN :
        IF ok
        THEN /\ chat' = Handle
             /\ initState' = "ok"
             /\ UNCHANGED error
        ELSE /\ error' = InitError
             /\ initState' = "failed"
             /\ UNCHANGED chat
    /\ ev' = [op |-> "initChat", id |-> 0]
    /\ UNCHANGED <<messages, userInput, isLoading, sends>>

\* onChange of the input, which is disabled while isLoading
\* (onChange_enabled: the input is never disabled).
onChange_enabled ==
    /\ \E v \in InputTexts : userInput' = v
    /\ ev' = [op |-> "onChange", id |-> 0]
    /\ UNCHANGED <<chat, messages, isLoading, error, initState, sends>>
onChange ==
    /\ ~inputDisabled
    /\ \E v \in InputTexts : userInput' = v
    /\ ev' = [op |-> "onChange", id |-> 0]
    /\ UNCHANGED <<chat, messages, isLoading, error, initState, sends>>

\* The submit handler up to its first await.  A submit the guard rejects is
\* always possible; accepted ones are counted against MaxSends.
handleSendMessage ==
    /\ CanSend(userInput, isLoading, chat) => Len(sends) < MaxSends
    /\ IF ~CanSend(userInput, isLoading, chat)
       THEN /\ ev' = [op |-> "submit", id |-> 0]
            /\ UNCHANGED <<messages, userInput, isLoading, error, sends>>
       ELSE /\ messages' = messages \o <<userMessage(userInput), placeholder>>
            /\ userInput' = <<>>
            /\ isLoading' = loadingOnSend
            /\ error' = NoError
            /\ sends' = Append(sends,
                   [pc |-> "open",
                    messageToSend |-> userInput,
                    before |-> messages,
                    slot |-> Len(messages) + 2,
                    delivered |-> <<>>])
            /\ ev' = [op |-> "submit", id |-> Len(sends) + 1]
    /\ UNCHANGED <<chat, initState>>

\* await chat.sendMessageStream(...) resolves with a stream.
streamOpened(i) ==
    /\ sends[i].pc = "open"
    /\ sends' = [sends EXCEPT ![i].pc = "iter"]
    /\ ev' = [op |-> "open", id |-> i]
    /\ UNCHANGED <<chat, messages, userInput, isLoading, error, initState>>

\* One turn of the for-await loop.
chunkArrives(i) ==
    /\ sends[i].pc = "iter"
    /\ Len(sends[i].delivered) < MaxChunks
    /\ \E chunkText \in ChunkTexts :
        /\ messages' = appendChunk(messages, chunkText)
        /\ sends' = [sends EXCEPT ![i].delivered = Append(@, chunkText)]
    /\ ev' = [op |-> "chunk", id |-> i]
    /\ UNCHANGED <<chat, userInput, isLoading, error, initState>>

\* The stream is exhausted: the loop ends and the finally block runs.
streamExhausted(i) ==
    /\ sends[i].pc = "iter"
    /\ sends' = [sends EXCEPT ![i].pc = "done"]
    /\ isLoading' = FALSE
    /\ ev' = [op |-> "end", id |-> i]
    /\ UNCHANGED <<chat, messages, userInput, error, initState>>

\* The await or the iteration throws: catch, then finally
\* (streamFails_noFinally: isLoading is reset on the normal path only).
streamFails_noFinally(i) ==
    /\ sends[i].pc \in {"open", "iter"}
    /\ sends' = [sends EXCEPT ![i].pc = "failed"]
    /\ error' = StreamError
    /\ messages' = removePlaceholder(messages)
    /\ ev' = [op |-> "fail", id |-> i]
    /\ UNCHANGED <<chat, userInput, isLoading, initState>>
streamFails(i) ==
    /\ sends[i].pc \in {"open", "iter"}
    /\ sends' = [sends EXCEPT ![i].pc = "failed"]
    /\ error' = StreamError
    /\ messages' = removePlaceholder(messages)
    /\ isLoading' = FALSE
    /\ ev' = [op |-> "fail", id |-> i]
    /\ UNCHANGED <<chat, userInput, initState>>

Next ==
    \/ initChat
    \/ onChange
    \/ handleSendMessage
    \/ \E i \in DOMAIN sends : streamOpened(i)
    \/ \E i \in DOMAIN sends : chunkArrives(i)
    \/ \E i \in DOMAIN sends : streamExhausted(i)
    \/ \E i \in DOMAIN sends : streamFails(i)

Spec == Init /\ [][Next]_vars

\* ---------------------------------------------------------------- helpers
RECURSIVE Concat(_)
Concat(chunks) ==
    IF chunks = <<>> THEN <<>> ELSE Head(chunks) \o Concat(Tail(chunks))

Active(i) == sends[i].pc \in {"open", "iter"}
ActiveSends == { i \in DOMAIN sends : Active(i) }

IsPrefix(s, t) == Len(s) <= Len(t) /\ SubSeq(t, 1, Len(s)) = s

Min(a, b) == IF a <= b THEN a ELSE b

\* The step is a run of the submit handler; the preconditions of a send.
SubmitStep == ev'.op = "submit"
Accepted == trim(userInput) # <<>> /\ ~isLoading /\ chat # NoChat

\* ---------------------------------------------------------------- claims

\* C1: a submit of an input that is non-empty after trimming, made while
\* isLoading is false and a session handle exists, appends exactly the user
\* message with the submitted text and then one empty model message, and
\* leaves the messages before them as they were.
C1_SubmitAppendsPair ==
    [][ (SubmitStep /\ Accepted) =>
            messages' = messages \o
                <<[role |-> "user", text |-> userInput],
                  [role |-> "model", text |-> <<>>]>> ]_vars

C1_Witness ==
    /\ ev = [op |-> "submit", id |-> 2]
    /\ Len(messages) = 4
    /\ messages[3] = [role |-> "user", text |-> <<" ", "a", " ">>]
    /\ messages[4] = [role |-> "model", text |-> <<>>]

\* C2: a submit with an empty or whitespace-only input, or while a send is
\* in flight, or without a session handle, changes neither messages,
\* isLoading, error nor userInput, and opens no streaming request.
C2_RejectedSubmitIsNoOp ==
    [][ (SubmitStep /\ ~Accepted) =>
            /\ messages' = messages
            /\ isLoading' = isLoading
            /\ error' = error
            /\ userInput' = userInput
            /\ sends' = sends ]_vars

C2_Witness ==
    /\ ev = [op |-> "submit", id |-> 0]
    /\ userInput = <<" ">>
    /\ chat = Handle
    /\ error = StreamError
    /\ Len(messages) = 1

\* C3: right after a send has failed (at the opening, before any chunk or
\* after some chunks), messages is the conversation before that send plus
\* its user message, error is the stream error and isLoading is false.
C3_FailureRollsBack ==
    ev.op = "fail" =>
        /\ messages = sends[ev.id].before \o
               <<[role |-> "user", text |-> sends[ev.id].messageToSend]>>
        /\ error = StreamError
        /\ isLoading = FALSE

C3_Witness ==
    /\ ev = [op |-> "fail", id |-> 2]
    /\ Len(sends[2].delivered) = MaxChunks
    /\ Len(sends[2].before) = 2

\* C4: while a stream delivers chunks and after it has ended normally, the
\* text of that send's model message is the concatenation, in delivery
\* order, of the chunks delivered so far.
C4_ChunksInOrder ==
    \A i \in DOMAIN sends :
        sends[i].pc \in {"iter", "done"} =>
            /\ sends[i].slot \in DOMAIN messages
            /\ messages[sends[i].slot].role = "model"
            /\ messages[sends[i].slot].text = Concat(sends[i].delivered)

C4_Witness ==
    \E i \in DOMAIN sends :
        /\ sends[i].pc = "done"
        /\ sends[i].delivered = <<<<"a">>, <<"b">>>>
        /\ messages[sends[i].slot].text = <<"a", "b">>

\* C5: isLoading is true exactly when some accepted send is waiting for its
\* stream to open, for its next chunk or for its end.
C5_LoadingIffSendActive ==
    isLoading <=> ActiveSends # {}

C5_Witness ==
    /\ isLoading
    /\ \E i \in DOMAIN sends :
        sends[i].pc = "iter" /\ Len(sends[i].delivered) = MaxChunks

\* C6: at most one send is active, a streaming request is opened only when
\* none is outstanding, and a chunk is appended to the placeholder of the
\* send whose stream delivered it, which is the last message.
C6_SingleSendInFlight ==
    /\ [](Cardinality(ActiveSends) <= 1)
    /\ [][ Len(sends') > Len(sends) => ActiveSends = {} ]_vars
    /\ [][ ev'.op = "chunk" =>
            /\ sends[ev'.id].slot = Len(messages)
            /\ messages[Len(messages)].role = "model"
            /\ Len(messages') = Len(messages) ]_vars

C6_Witness ==
    /\ ev = [op |-> "submit", id |-> 0]
    /\ isLoading
    /\ \E i \in DOMAIN sends : sends[i].pc = "iter" /\ sends[i].delivered # <<>>

\* C7: once session creation has failed, the handle stays null, the
\* initialization error stays set, no send is ever accepted and messages
\* stays empty.
C7_InitFailureIsFinal ==
    initState = "failed" =>
        /\ chat = NoChat
        /\ error = InitError
        /\ messages = <<>>
        /\ sends = <<>>

C7_Witness ==
    /\ initState = "failed"
    /\ ev = [op |-> "submit", id |-> 0]
    /\ userInput = <<"a">>

\* C8: userInput is empty for as long as a send is in flight, and when the
\* send has ended, normally or not, isLoading is false and userInput empty.
C8_InputEmptyUntilDone ==
    /\ isLoading => userInput = <<>>
    /\ ev.op \in {"end", "fail"} => (~isLoading /\ userInput = <<>>)

C8_Witness ==
    /\ ev.op = "end"
    /\ sends[ev.id].delivered # <<>>
    /\ sends[ev.id].messageToSend = <<" ", "a", " ">>

\* C9, as stated: with a session and before any send the view has no
\* message and shows the welcome placeholder; after an initialization
\* failure the welcome placeholder is not shown and the error is shown.
C9_Original ==
    /\ (initState = "ok" /\ sends = <<>>) => (messages = <<>> /\ welcomeShown)
    /\ initState = "failed" => (~welcomeShown /\ errorShown)

\* C9, amended: with a session and before any send the view has no message
\* and shows the welcome placeholder; after an initialization failure the
\* error is shown and the welcome placeholder is still shown with it.
C9_WelcomeStaysWithError ==
    /\ (initState = "ok" /\ sends = <<>>) => (messages = <<>> /\ welcomeShown)
    /\ initState = "failed" => (welcomeShown /\ errorShown)

C9_Witness ==
    /\ initState = "failed"
    /\ ev.op = "onChange"
    /\ userInput = <<"a">>

\* C10: no step changes the role of a message or the text of a user
\* message; the text of a model message changes only by a chunk of its own
\* open stream, which extends it; and the only removal is that of the last
\* message, the model placeholder of the send that fails in that step.
C10_step ==
    LET n == Len(messages)
        m == Len(messages')
        common == 1 .. Min(n, m)
    IN  /\ \A k \in common : messages'[k].role = messages[k].role
        /\ \A k \in common :
            messages[k].role = "user" => messages'[k].text = messages[k].text
        /\ \A k \in common :
            (messages[k].role = "model" /\ messages'[k].text # messages[k].text) =>
                /\ IsPrefix(messages[k].text, messages'[k].text)
                /\ ev'.op = "chunk"
                /\ sends[ev'.id].pc = "iter"
                /\ sends[ev'.id].slot = k
        /\ m < n =>
                /\ m = n - 1
                /\ ev'.op = "fail"
                /\ sends[ev'.id].slot = n
                /\ messages[n].role = "model"

C10_AppendOnlyFrozen == [][C10_step]_vars

C10_Witness ==
    /\ ev = [op |-> "fail", id |-> 2]
    /\ sends[1].pc = "done"
    /\ sends[1].delivered = <<<<"b">>, <<"a">>>>
    /\ sends[2].delivered # <<>>
    /\ Len(messages) = 3
    /\ messages[2].text = <<"b", "a">>

====
